---------------------------- MODULE Spec2Model ----------------------------
(***************************************************************************)
(* Model of plugins/dynamic-security/auth.c of the mosquitto broker:       *)
(*   - dynsec_auth__base64_encode / dynsec_auth__base64_decode             *)
(*   - dynsec_auth__pw_hash                                                *)
(*   - memcmp_const                                                        *)
(*   - dynsec_auth__basic_auth_callback                                    *)
(*                                                                         *)
(* Three specifications share the module:                                  *)
(*   Spec       the broker's event loop: one basic-auth callback or one    *)
(*              set-password call at a time, each run to completion;       *)
(*   SpecCodec  the base64 codec applied to bounded byte buffers;          *)
(*   SpecConc   one basic-auth callback interleaved, statement by          *)
(*              statement, with one set-password call on the same record.  *)
(***************************************************************************)
EXTENDS Integers, Sequences, FiniteSets

(***************************************************************************)
(* Bounds of the model.                                                    *)
(***************************************************************************)
\* Number of distinct salt values RAND_bytes may produce.
NumSalts == 2

\* Longest byte buffer handed to the codec.
MaxLen == 3

(***************************************************************************)
(* Program constants.                                                      *)
(***************************************************************************)
\* unsigned char password_hash[64]; /* For SHA512 */
HashLen == 64

\* iterations = PW_DEFAULT_ITERATIONS;
PW_DEFAULT_ITERATIONS == 101

(***************************************************************************)
(* Values.                                                                 *)
(***************************************************************************)
\* A NULL char pointer.
NULL == "<NULL>"

\* A NULL buffer pointer.
NULLBUF == << >>

\* A buffer that was never written (the callback's stack buffer when
\* dynsec_auth__pw_hash returns before PKCS5_PBKDF2_HMAC fills it): its
\* contents are indeterminate and the code never reads them.
Uninit == <<"indeterminate">>

\* Byte values the codec is fed: all bits clear, all bits set, mixed.
ByteSamples == {0, 77, 165, 255}

Usernames == {"alice", "dave"}
Provisioned == {"alice"}
Passwords == {"Secret123!", "wrong"}
ClientIds == {"dev-1", "dev-2"}
Salts == 1 .. NumSalts
IterationValues == {0, 1, PW_DEFAULT_ITERATIONS}

\* Return codes of the functions (mosquitto.h names).
MOSQ_ERR_SUCCESS == "MOSQ_ERR_SUCCESS"
MOSQ_ERR_INVAL == "MOSQ_ERR_INVAL"
MOSQ_ERR_AUTH == "MOSQ_ERR_AUTH"
MOSQ_ERR_UNKNOWN == "MOSQ_ERR_UNKNOWN"
MOSQ_ERR_PLUGIN_DEFER == "MOSQ_ERR_PLUGIN_DEFER"
\* return !PKCS5_PBKDF2_HMAC(...) when the derivation returns 0.
PBKDF2_FAILED == "1"
\* The process is terminated (unprotected Lua error: panic, then abort()).
ABORTED == "abort()"

(***************************************************************************)
(* Bit operations on 8-bit values.                                         *)
(***************************************************************************)
RECURSIVE Xor(_, _)
Xor(a, b) ==
    IF a = 0 /\ b = 0 THEN 0
    ELSE (((a % 2) + (b % 2)) % 2) + (2 * Xor(a \div 2, b \div 2))

RECURSIVE Or(_, _)
Or(a, b) ==
    IF a = 0 /\ b = 0 THEN 0
    ELSE (IF (a % 2) = 1 \/ (b % 2) = 1 THEN 1 ELSE 0) + (2 * Or(a \div 2, b \div 2))

(***************************************************************************)
(* The base64 transform of OpenSSL's BIO_f_base64 with                     *)
(* BIO_FLAGS_BASE64_NO_NL: the standard alphabet, "=" padding, no line     *)
(* breaks.  A text is a sequence of one-character strings (the string      *)
(* without its terminating NUL).                                           *)
(***************************************************************************)
B64Alphabet ==
    <<"A", "B", "C", "D", "E", "F", "G", "H", "I", "J", "K", "L", "M", "N", "O", "P",
      "Q", "R", "S", "T", "U", "V", "W", "X", "Y", "Z", "a", "b", "c", "d", "e", "f",
      "g", "h", "i", "j", "k", "l", "m", "n", "o", "p", "q", "r", "s", "t", "u", "v",
      "w", "x", "y", "z", "0", "1", "2", "3", "4", "5", "6", "7", "8", "9", "+", "/" >>

B64Pad == "="

B64Char(v) == B64Alphabet[v + 1]

B64Value(c) == (CHOOSE i \in 1 .. 64 : B64Alphabet[i] = c) - 1

IsB64Char(c) == \E i \in 1 .. 64 : B64Alphabet[i] = c

\* What BIO_write(b64, in, in_len) followed by BIO_flush leaves in the
\* memory BIO: three bytes become four characters, a last group of one or
\* two bytes is padded.
RECURSIVE B64EncodeBytes(_)
B64EncodeBytes(bytes) ==
    IF Len(bytes) = 0 THEN << >>
    ELSE IF Len(bytes) = 1
    THEN << B64Char(bytes[1] \div 4), B64Char((bytes[1] % 4) * 16),
            B64Pad, B64Pad >>
    ELSE IF Len(bytes) = 2
    THEN << B64Char(bytes[1] \div 4),
            B64Char(((bytes[1] % 4) * 16) + (bytes[2] \div 16)),
            B64Char((bytes[2] % 16) * 4), B64Pad >>
    ELSE << B64Char(bytes[1] \div 4),
            B64Char(((bytes[1] % 4) * 16) + (bytes[2] \div 16)),
            B64Char(((bytes[2] % 16) * 4) + (bytes[3] \div 64)),
            B64Char(bytes[3] % 64) >>
         \o B64EncodeBytes(SubSeq(bytes, 4, Len(bytes)))

\* A decoder that takes "=" for the value 0 and yields three bytes for every
\* group, counting the padding into the decoded length.
B64DecodeGroupKeepsPadding(c1, c2, c3, c4) ==
    LET v3 == IF c3 = B64Pad THEN 0 ELSE B64Value(c3)
        v4 == IF c4 = B64Pad THEN 0 ELSE B64Value(c4)
    IN  << (B64Value(c1) * 4) + (B64Value(c2) \div 16),
           ((B64Value(c2) % 16) * 16) + (v3 \div 4),
           ((v3 % 4) * 64) + v4 >>

\* The bytes one group of four characters stands for.
B64DecodeGroup(c1, c2, c3, c4) ==
    IF c3 = B64Pad
    THEN << (B64Value(c1) * 4) + (B64Value(c2) \div 16) >>
    ELSE IF c4 = B64Pad
    THEN << (B64Value(c1) * 4) + (B64Value(c2) \div 16),
            ((B64Value(c2) % 16) * 16) + (B64Value(c3) \div 4) >>
    ELSE << (B64Value(c1) * 4) + (B64Value(c2) \div 16),
            ((B64Value(c2) % 16) * 16) + (B64Value(c3) \div 4),
            ((B64Value(c3) % 4) * 64) + B64Value(c4) >>

\* A text the decoder takes: whole groups of four alphabet characters,
\* padding only at the end of the last group.
B64WellFormed(text) ==
    /\ Len(text) % 4 = 0
    /\ \A i \in 1 .. Len(text) :
        \/ IsB64Char(text[i])
        \/ /\ text[i] = B64Pad
           /\ i >= Len(text) - 1
           /\ (i = Len(text) - 1 => text[Len(text)] = B64Pad)

RECURSIVE B64DecodeText(_)
B64DecodeText(text) ==
    IF Len(text) = 0 THEN << >>
    ELSE B64DecodeGroup(text[1], text[2], text[3], text[4])
         \o B64DecodeText(SubSeq(text, 5, Len(text)))

\* BIO_read(b64, *decoded, slen): the number of bytes decoded and the bytes;
\* when there is nothing to decode, or the text is not base64, the count is
\* 0 or negative (here -1).
BIO_read_b64(text, slen) ==
    IF B64WellFormed(text) /\ Len(text) > 0
    THEN LET out == B64DecodeText(text)
         IN  [n |-> Len(out), bytes |-> out]
    ELSE [n |-> IF Len(text) = 0 THEN 0 ELSE -1, bytes |-> << >>]

(***************************************************************************)
(* dynsec_auth__base64_encode (lines 37-70).  Failures of BIO_new,         *)
(* BIO_flush and mosquitto_malloc (resource exhaustion) are left out.      *)
(***************************************************************************)
dynsec_auth__base64_encode(in, in_len) ==
    IF in_len < 0
    THEN [rc |-> 1, encoded |-> << >>]
    ELSE [rc |-> 0, encoded |-> B64EncodeBytes(SubSeq(in, 1, in_len))]

(***************************************************************************)
(* dynsec_auth__base64_decode (lines 73-114).  *decoded is a zero-filled   *)
(* buffer of slen bytes of which BIO_read fills the first decoded_len.     *)
(* calloc_null: mosquitto_calloc(slen, 1) returned NULL, which calloc may  *)
(* do for slen = 0 (line 99).                                              *)
(***************************************************************************)
dynsec_auth__base64_decode(in, calloc_null) ==
    LET slen == Len(in)
        got == BIO_read_b64(in, slen)
    IN  IF calloc_null
        THEN [rc |-> 1, decoded |-> NULLBUF, decoded_len |-> 0, line |-> 101]
        ELSE IF got.n <= 0
        THEN [rc |-> 1, decoded |-> NULLBUF, decoded_len |-> 0, line |-> 110]
        ELSE [rc |-> 0,
              decoded |-> [i \in 1 .. slen |->
                              IF i <= got.n THEN got.bytes[i] ELSE 0],
              decoded_len |-> got.n,
              line |-> 113]

(***************************************************************************)
(* PKCS5_PBKDF2_HMAC with sha512: a deterministic function of password,    *)
(* salt and iteration count producing password_hash_len bytes.  The        *)
(* library primitive is modelled as collision free on the model's domain:  *)
(* every input changes every output byte.                                  *)
(***************************************************************************)
PwCode(password) ==
    CASE password = "Secret123!" -> 1
      [] password = "wrong" -> 2
      [] OTHER -> 3

PKCS5_PBKDF2_HMAC(password, salt, iterations, keylen) ==
    [i \in 1 .. keylen |->
        ((PwCode(password) * 50) + (salt * 10) + (iterations % 7) + i) % 256]

\* A stored hash whose last byte alone differs (a damaged record).
LastByteFlipped(hash) ==
    [hash EXCEPT ![Len(hash)] = Xor(hash[Len(hash)], 1)]

(***************************************************************************)
(* struct dynsec__client, the fields auth.c reads and writes.              *)
(***************************************************************************)
ClientRecord(clientid, disabled, valid, salt, iterations, password_hash) ==
    [clientid |-> clientid,
     disabled |-> disabled,
     pw |-> [valid |-> valid,
             salt |-> salt,
             iterations |-> iterations,
             password_hash |-> password_hash]]

\* The records the directory may hold: every combination of the fields, the
\* stored hash being the hash of one of the passwords under the record's salt
\* and iteration count, or that hash with its last byte damaged.
StoredHashes(salt, iterations) ==
    LET it == IF iterations < 1 THEN PW_DEFAULT_ITERATIONS ELSE iterations
        good == {PKCS5_PBKDF2_HMAC(p, salt, it, HashLen) : p \in Passwords}
    IN  good \cup {LastByteFlipped(PKCS5_PBKDF2_HMAC("Secret123!", salt, it, HashLen))}

RecordsWith(iterationValues) ==
    UNION {
        {ClientRecord(cid, dis, val, s, it, h) : h \in StoredHashes(s, it)} :
            cid \in {NULL, "dev-1"}, dis \in BOOLEAN, val \in BOOLEAN,
            s \in Salts, it \in iterationValues }

\* Records as the set-password operation leaves them: iterations >= 1.
InitialRecords == RecordsWith({it \in IterationValues : it >= 1})

\* Records as a stored configuration may hold them: iterations < 1 too.
LoadableRecords == RecordsWith(IterationValues)

(***************************************************************************)
(* dynsec_auth__pw_hash (lines 123-149).                                   *)
(* env: rand_ok / rand_salt  RAND_bytes' result and the bytes it wrote;    *)
(*      digest_ok            EVP_get_digestbyname("sha512") != NULL;       *)
(*      pbkdf2_ok            PKCS5_PBKDF2_HMAC returned 1.                 *)
(* Returns the return code, the record as the call leaves it, and the      *)
(* contents of the caller's password_hash buffer.                          *)
(***************************************************************************)
PwHashResult(rc, client, hash) == [rc |-> rc, client |-> client, hash |-> hash]

dynsec_auth__pw_hash(client, password, password_hash_len, new_password, env) ==
    IF new_password /\ ~env.rand_ok
    THEN \* RAND_bytes failed: line 130.  The salt buffer is taken as untouched.
         PwHashResult(MOSQ_ERR_UNKNOWN, client, Uninit)
    ELSE
      LET c1 == IF new_password
                THEN [client EXCEPT !.pw.salt = env.rand_salt]
                ELSE client
          iterations == IF new_password THEN PW_DEFAULT_ITERATIONS
                        ELSE client.pw.iterations
      IN  IF iterations < 1
          THEN PwHashResult(MOSQ_ERR_INVAL, c1, Uninit)
          ELSE
            LET c2 == [c1 EXCEPT !.pw.iterations = iterations]
            IN  IF ~env.digest_ok
                THEN PwHashResult(MOSQ_ERR_UNKNOWN, c2, Uninit)
                ELSE IF env.pbkdf2_ok
                THEN PwHashResult(MOSQ_ERR_SUCCESS, c2,
                        PKCS5_PBKDF2_HMAC(password, c2.pw.salt, iterations,
                                          password_hash_len))
                ELSE PwHashResult(PBKDF2_FAILED, c2, Uninit)

(***************************************************************************)
(* memcmp_const (lines 158-169).  The bytes are compared as unsigned       *)
(* values; with a signed char the accumulated value differs but is zero    *)
(* in exactly the same cases.                                              *)
(***************************************************************************)
RECURSIVE memcmp_loop(_, _, _, _, _)
memcmp_loop(a, b, len, i, rc) ==
    IF i >= len THEN rc
    ELSE LET next_rc == Or(rc, Xor(a[i + 1], b[i + 1]))   \* rc |= a[i] ^ b[i]
         IN  IF next_rc >= 0 THEN memcmp_loop(a, b, len, i + 1, next_rc) ELSE next_rc

memcmp_const(a, b, len) ==
    IF a = NULLBUF \/ b = NULLBUF THEN 1
    ELSE memcmp_loop(a, b, len, 0, 0)

(***************************************************************************)
(* The directory: dynsec_clients__find(username).  clients maps the        *)
(* provisioned usernames to their records.                                 *)
(***************************************************************************)
dynsec_clients__find_found(clients, username) == username \in DOMAIN clients

(***************************************************************************)
(* The Lua handler behind userdata (lines 197-239, compiled WITH_LUA).     *)
(*   "none"                 built without WITH_LUA, or userdata == NULL;   *)
(*   "returns_nonboolean"   lua_pcall returns 0, the result is no boolean; *)
(*   "returns_boolean"      lua_pcall returns 0, the result is a boolean:  *)
(*                          luaL_checkinteger raises a Lua error outside   *)
(*                          any protected call, and Lua aborts the process;*)
(*   "pcall_fails"          lua_pcall returns non-zero.                    *)
(***************************************************************************)
HookBehaviours == {"none", "pcall_fails", "returns_nonboolean", "returns_boolean"}

LuaHookOutcome(userdata) ==
    CASE userdata = "none" -> MOSQ_ERR_SUCCESS
      [] userdata = "pcall_fails" -> MOSQ_ERR_UNKNOWN
      [] userdata = "returns_boolean" -> ABORTED
      [] OTHER -> MOSQ_ERR_SUCCESS

(***************************************************************************)
(* The checks of dynsec_auth__basic_auth_callback, one operator each.      *)
(***************************************************************************)
\* if(ed->username == NULL || ed->password == NULL)
CredentialsAbsent(ed) == ed.username = NULL \/ ed.password = NULL

\* The check of line 186 left out: a disabled record is treated as live.
ClientDisabledMutant(client) == FALSE

\* if(client->disabled)
ClientDisabled(client) == client.disabled

\* if(client->clientid){ clientid = mosquitto_client_id(ed->client);
\*   if(clientid == NULL || strcmp(client->clientid, clientid)) ...
ClientIdMismatch(client, ed) ==
    /\ client.clientid # NULL
    /\ (ed.clientid = NULL \/ client.clientid # ed.clientid)

(***************************************************************************)
(* dynsec_auth__basic_auth_callback (lines 172-251).                       *)
(* ed: username, password (NULL when absent) and clientid, the result of   *)
(* mosquitto_client_id(ed->client).  Returns the return code, the parts    *)
(* that ran (trace) and the directory as the call leaves it.               *)
(***************************************************************************)
AuthResult(rc, trace, clients) == [rc |-> rc, trace |-> trace, clients |-> clients]

dynsec_auth__basic_auth_callback(clients, ed, userdata, env) ==
    IF CredentialsAbsent(ed)
    THEN AuthResult(MOSQ_ERR_PLUGIN_DEFER, {}, clients)
    ELSE IF ~dynsec_clients__find_found(clients, ed.username)
    THEN AuthResult(MOSQ_ERR_PLUGIN_DEFER, {"find"}, clients)
    ELSE
      LET client == clients[ed.username]
      IN  IF ClientDisabled(client)
          THEN AuthResult(MOSQ_ERR_AUTH, {"find"}, clients)
          ELSE IF ClientIdMismatch(client, ed)
          THEN AuthResult(MOSQ_ERR_AUTH, {"find"}, clients)
          ELSE IF ~client.pw.valid
          THEN AuthResult(MOSQ_ERR_PLUGIN_DEFER, {"find"}, clients)
          ELSE
            LET h == dynsec_auth__pw_hash(client, ed.password, HashLen, FALSE, env)
                after == [clients EXCEPT ![ed.username] = h.client]
            IN  IF h.rc # MOSQ_ERR_SUCCESS
                THEN AuthResult(MOSQ_ERR_PLUGIN_DEFER, {"find", "hasher"}, after)
                ELSE IF memcmp_const(h.client.pw.password_hash, h.hash, HashLen) = 0
                THEN AuthResult(LuaHookOutcome(userdata),
                        {"find", "hasher", "comparator"}
                            \cup (IF userdata = "none" THEN {} ELSE {"hook"}),
                        after)
                ELSE AuthResult(MOSQ_ERR_AUTH, {"find", "hasher", "comparator"}, after)

\* The four outcomes the host distinguishes.
Outcome(rc) ==
    CASE rc = MOSQ_ERR_SUCCESS -> "ACCEPT"
      [] rc = MOSQ_ERR_AUTH -> "REJECT"
      [] rc = MOSQ_ERR_PLUGIN_DEFER -> "DEFER"
      [] rc = ABORTED -> "ABORT"
      [] OTHER -> "ERROR"

(***************************************************************************)
(* The set-password operation: the caller of dynsec_auth__pw_hash with     *)
(* new_password = true.  The call derives into a buffer of the caller;     *)
(* on success the caller stores the returned hash on the record and marks  *)
(* the password material present, on failure it stores nothing.            *)
(***************************************************************************)
client__set_password(client, password, env) ==
    LET h == dynsec_auth__pw_hash(client, password, HashLen, TRUE, env)
    IN  [rc |-> h.rc,
         client |-> IF h.rc = MOSQ_ERR_SUCCESS
                    THEN [h.client EXCEPT !.pw.password_hash = h.hash,
                                          !.pw.valid = TRUE]
                    ELSE h.client]

(***************************************************************************)
(* State.                                                                  *)
(***************************************************************************)
VARIABLES
    clients,    \* the directory: username -> struct dynsec__client
    pc,         \* what the event loop last ran: "idle", "auth", "setpw"
    call,       \* the arguments of that call and the directory before it
    result,     \* what the call returned
    c_pc,       \* codec: "start", "encoded", "decoded"
    c_in,       \* codec: the byte buffer and the in_len passed with it
    c_enc,      \* codec: result of dynsec_auth__base64_encode
    c_dec,      \* codec: result of dynsec_auth__base64_decode
    w,          \* interleaved set-password call: its position and locals
    r           \* interleaved basic-auth callback: its position and locals

vars == <<clients, pc, call, result, c_pc, c_in, c_enc, c_dec, w, r>>
seqVars == <<clients, pc, call, result>>
codecVars == <<c_pc, c_in, c_enc, c_dec>>
concVars == <<w, r>>

NoCall == [kind |-> "none"]
NoResult == [rc |-> "none"]

\* What the crypto library may do in one call.
AuthEnvs ==
    {[rand_ok |-> TRUE, rand_salt |-> 1, digest_ok |-> d, pbkdf2_ok |-> k] :
        d \in BOOLEAN, k \in BOOLEAN}

SetPwEnvs ==
    {[rand_ok |-> ro, rand_salt |-> s, digest_ok |-> d, pbkdf2_ok |-> k] :
        ro \in BOOLEAN, s \in Salts, d \in BOOLEAN, k \in BOOLEAN}

\* The event data a connection attempt may carry.
EventData ==
    {[username |-> u, password |-> p, clientid |-> c] :
        u \in Usernames \cup {NULL},
        p \in Passwords \cup {NULL},
        c \in ClientIds \cup {NULL}}

CodecIdle ==
    /\ c_pc = "off"
    /\ c_in = [bytes |-> << >>, in_len |-> 0]
    /\ c_enc = NoResult
    /\ c_dec = NoResult

SeqIdle ==
    /\ clients = [u \in {} |-> NULL]
    /\ pc = "off"
    /\ call = NoCall
    /\ result = NoResult

ConcIdle ==
    /\ w = [pc |-> "off"]
    /\ r = [pc |-> "off"]

(***************************************************************************)
(* Spec: the event loop.  The directory starts with no record for any      *)
(* username or with one well-formed record for "alice".                    *)
(***************************************************************************)
Init ==
    /\ clients \in {[u \in {} |-> NULL]}
                   \cup {[u \in Provisioned |-> rec] : rec \in InitialRecords}
    /\ pc = "idle"
    /\ call = NoCall
    /\ result = NoResult
    /\ CodecIdle
    /\ ConcIdle

\* The host runs the basic-auth callback for one connection attempt.
BasicAuth ==
    /\ pc = "idle"
    /\ \E ed \in EventData, userdata \in HookBehaviours, env \in AuthEnvs :
        LET res == dynsec_auth__basic_auth_callback(clients, ed, userdata, env)
        IN  /\ call' = [kind |-> "auth", ed |-> ed, userdata |-> userdata,
                        env |-> env, before |-> clients]
            /\ result' = [rc |-> res.rc, trace |-> res.trace]
            /\ clients' = res.clients
            /\ pc' = "auth"
    /\ UNCHANGED <<codecVars, concVars>>

\* A control command sets the password of a provisioned client.
SetPassword ==
    /\ pc = "idle"
    /\ \E u \in DOMAIN clients, password \in Passwords, env \in SetPwEnvs :
        LET res == client__set_password(clients[u], password, env)
        IN  /\ call' = [kind |-> "setpw", username |-> u, password |-> password,
                        env |-> env, before |-> clients]
            /\ result' = [rc |-> res.rc, trace |-> {"hasher"}]
            /\ clients' = [clients EXCEPT ![u] = res.client]
            /\ pc' = "setpw"
    /\ UNCHANGED <<codecVars, concVars>>

\* The external directory loads its stored configuration: the record of a
\* provisioned username is replaced by what the file holds, or removed.
DirectoryLoad ==
    /\ pc = "idle"
    /\ clients' \in {[u \in {} |-> NULL]}
                    \cup {[u \in Provisioned |-> rec] : rec \in LoadableRecords}
    /\ clients' # clients
    /\ UNCHANGED <<pc, call, result, codecVars, concVars>>

\* The call has returned to the host; the event loop takes the next event.
\* After abort() there is no next event.
Return ==
    /\ pc \in {"auth", "setpw"}
    /\ result.rc # ABORTED
    /\ pc' = "idle"
    /\ call' = NoCall
    /\ result' = NoResult
    /\ UNCHANGED <<clients, codecVars, concVars>>

Next == BasicAuth \/ SetPassword \/ DirectoryLoad \/ Return

Spec == Init /\ [][Next]_vars

(***************************************************************************)
(* Vocabulary of the properties of the decision engine: the call that has  *)
(* just returned (pc = "auth"), read from call and result.                 *)
(***************************************************************************)
AuthReturned == pc = "auth"

CallPresent == call.ed.username # NULL /\ call.ed.password # NULL

CallFound == CallPresent /\ call.ed.username \in DOMAIN call.before

CallRecord == call.before[call.ed.username]

BindingSatisfied ==
    CallRecord.clientid = NULL \/ CallRecord.clientid = call.ed.clientid

\* Found, not disabled, identity binding satisfied, password material present.
ReachesHasher ==
    /\ CallFound
    /\ ~CallRecord.disabled
    /\ BindingSatisfied
    /\ CallRecord.pw.valid

\* The derivation the engine asks for (new_password = false) fails.
DerivationFails ==
    dynsec_auth__pw_hash(CallRecord, call.ed.password, HashLen, FALSE,
                         call.env).rc # MOSQ_ERR_SUCCESS

\* The hash of the supplied password under the stored salt and iteration
\* count is byte-identical, over all 64 bytes, to the stored hash.
HashEqual ==
    /\ CallRecord.pw.iterations >= 1
    /\ LET recomputed == PKCS5_PBKDF2_HMAC(call.ed.password, CallRecord.pw.salt,
                                           CallRecord.pw.iterations, HashLen)
       IN  \A i \in 1 .. HashLen : recomputed[i] = CallRecord.pw.password_hash[i]

CallOutcome == Outcome(result.rc)

HasherComparatorHookIdle == result.trace \cap {"hasher", "comparator", "hook"} = {}

(***************************************************************************)
(* C1: for a record that is found, not disabled, with identity binding     *)
(* satisfied and password material present, whenever the hash derivation   *)
(* fails the outcome is ERROR, never DEFER, REJECT or ACCEPT.              *)
(***************************************************************************)
C1_DerivationFailureIsError ==
    (AuthReturned /\ ReachesHasher /\ DerivationFails) => CallOutcome = "ERROR"

(***************************************************************************)
(* C2: once all policy checks passed and the recomputed hash equals the    *)
(* stored hash, the returned outcome is ACCEPT whatever the extension hook *)
(* does: it is the outcome returned with no hook installed.                *)
(***************************************************************************)
C2_HookNeverAltersAccept ==
    (AuthReturned /\ ReachesHasher /\ ~DerivationFails /\ HashEqual) =>
        /\ CallOutcome = "ACCEPT"
        /\ result.rc = dynsec_auth__basic_auth_callback(
                           call.before, call.ed, "none", call.env).rc

(***************************************************************************)
(* C3: for a record that is found, not disabled, with identity binding     *)
(* satisfied and password material present but stored iterations < 1, the  *)
(* outcome is REJECT or ERROR for every supplied password.                 *)
(***************************************************************************)
C3_BadIterationsFailClosed ==
    (AuthReturned /\ ReachesHasher /\ CallRecord.pw.iterations < 1) =>
        CallOutcome \in {"REJECT", "ERROR"}

(***************************************************************************)
(* C4: with username and password present, the outcome is ACCEPT only if   *)
(* a record exists, is not disabled, its clientid (if set) equals the      *)
(* connecting identifier, password material is present and the recomputed  *)
(* hash is byte-identical to the stored hash; when all of these hold       *)
(* except hash equality the outcome is REJECT.                             *)
(***************************************************************************)
C4_AcceptOnlyOnEqualHash ==
    (AuthReturned /\ CallPresent) =>
        /\ CallOutcome = "ACCEPT" => (ReachesHasher /\ HashEqual)
        /\ (ReachesHasher /\ ~HashEqual) => CallOutcome = "REJECT"

(***************************************************************************)
(* C5: if the record found has disabled = true, the engine returns REJECT  *)
(* for every password, every connecting identifier and whatever clientid   *)
(* or password material the record holds; the hasher is not consulted.     *)
(***************************************************************************)
C5_DisabledAlwaysRejects ==
    (AuthReturned /\ CallFound /\ CallRecord.disabled) =>
        /\ CallOutcome = "REJECT"
        /\ "hasher" \notin result.trace

\* A disabled record with a bound, matching clientid and the correct password
\* was checked and rejected.
C5_Witness ==
    /\ AuthReturned
    /\ CallFound
    /\ CallRecord.disabled
    /\ CallRecord.clientid = "dev-1"
    /\ call.ed.clientid = "dev-1"
    /\ CallRecord.pw.valid
    /\ HashEqual
    /\ call.userdata = "none"
    /\ call.env.digest_ok /\ call.env.pbkdf2_ok
    /\ CallOutcome = "REJECT"

(***************************************************************************)
(* C6: if the found record is not disabled and has a clientid set, then    *)
(* with an unknown (NULL) or different connecting identifier the engine    *)
(* returns REJECT even for the correct password; with an identical         *)
(* identifier and a correct password it returns ACCEPT.                    *)
(***************************************************************************)
C6_ClientIdBinding ==
    (AuthReturned /\ CallFound /\ ~CallRecord.disabled
                  /\ CallRecord.clientid # NULL) =>
        /\ call.ed.clientid # CallRecord.clientid => CallOutcome = "REJECT"
        /\ (call.ed.clientid = CallRecord.clientid
                /\ CallRecord.pw.valid /\ HashEqual) => CallOutcome = "ACCEPT"

(***************************************************************************)
(* C7: the engine returns DEFER in exactly these cases: username or        *)
(* password absent; no record for the username; or a record that is not    *)
(* disabled, satisfies identity binding and has no password material.  In  *)
(* none of them is the hasher, the comparator or the hook invoked.         *)
(***************************************************************************)
NoOpinionCase ==
    \/ ~CallPresent
    \/ CallPresent /\ ~CallFound
    \/ CallFound /\ ~CallRecord.disabled /\ BindingSatisfied
                 /\ ~CallRecord.pw.valid

C7_DeferExactlyWhenNoOpinion ==
    AuthReturned =>
        /\ CallOutcome = "DEFER" <=> NoOpinionCase
        /\ NoOpinionCase => HasherComparatorHookIdle

(***************************************************************************)
(* C10: whenever dynsec_auth__pw_hash called with new_password = true      *)
(* returns a failure, salt and iterations of the record hold the values    *)
(* they had before the call.                                               *)
(***************************************************************************)
C10_FailedNewHashLeavesRecord ==
    (pc = "setpw" /\ result.rc # MOSQ_ERR_SUCCESS) =>
        /\ clients[call.username].pw.salt = call.before[call.username].pw.salt
        /\ clients[call.username].pw.iterations
               = call.before[call.username].pw.iterations

(***************************************************************************)
(* SpecCodec: a byte buffer is encoded, and the text decoded again.        *)
(***************************************************************************)
CodecBuffers == UNION {[1 .. n -> ByteSamples] : n \in 0 .. MaxLen}

InitCodec ==
    /\ c_pc = "start"
    /\ \E bytes \in CodecBuffers, in_len \in {-1} \cup (0 .. MaxLen) :
        /\ in_len \in {-1, Len(bytes)}
        /\ c_in = [bytes |-> bytes, in_len |-> in_len]
    /\ c_enc = NoResult
    /\ c_dec = NoResult
    /\ SeqIdle
    /\ ConcIdle

Encode ==
    /\ c_pc = "start"
    /\ c_enc' = dynsec_auth__base64_encode(c_in.bytes, c_in.in_len)
    /\ c_pc' = "encoded"
    /\ UNCHANGED <<c_in, c_dec, seqVars, concVars>>

\* The caller decodes the text it was given; mosquitto_calloc may return
\* NULL for a request of zero bytes.
Decode ==
    /\ c_pc = "encoded"
    /\ c_enc.rc = 0
    /\ \E calloc_null \in BOOLEAN :
        /\ calloc_null => Len(c_enc.encoded) = 0
        /\ c_dec' = dynsec_auth__base64_decode(c_enc.encoded, calloc_null)
    /\ c_pc' = "decoded"
    /\ UNCHANGED <<c_in, c_enc, seqVars, concVars>>

NextCodec == Encode \/ Decode

SpecCodec == InitCodec /\ [][NextCodec]_vars

\* The round trip ran on the whole buffer.
RoundTripDone == c_pc = "decoded" /\ c_in.in_len = Len(c_in.bytes)

RoundTripExact ==
    /\ c_dec.rc = 0
    /\ c_dec.decoded_len = Len(c_in.bytes)
    /\ SubSeq(c_dec.decoded, 1, c_dec.decoded_len) = c_in.bytes

Shared == clients["alice"]

\* A version of the password material: what one decision must draw from.
Version(salt, iterations, password_hash) ==
    [salt |-> salt, iterations |-> iterations, password_hash |-> password_hash]

VersionOf(client) ==
    Version(client.pw.salt, client.pw.iterations, client.pw.password_hash)

InitConc ==
    /\ clients \in {[u \in Provisioned |-> rec] : rec \in InitialRecords}
    /\ w = [pc |-> "start", password |-> NULL, rand_salt |-> 0,
            hash |-> Uninit, old |-> VersionOf(clients["alice"])]
    /\ r = [pc |-> "start", ed |-> [username |-> NULL, password |-> NULL,
                                    clientid |-> NULL],
            iterations |-> 0, salt |-> 0, password_hash |-> Uninit,
            stored |-> Uninit, rc |-> "none"]
    /\ pc = "off"
    /\ call = NoCall
    /\ result = NoResult
    /\ CodecIdle

\* dynsec_auth__pw_hash, new_password = true, line 129: RAND_bytes fills
\* client->pw.salt.
SetPw_RandBytes ==
    /\ w.pc = "start"
    /\ \E password \in Passwords, salt \in Salts :
        /\ w' = [w EXCEPT !.pc = "l132", !.password = password,
                          !.rand_salt = salt]
        /\ clients' = [clients EXCEPT !["alice"].pw.salt = salt]
    /\ UNCHANGED <<r, pc, call, result, codecVars>>

\* lines 132-139: iterations = PW_DEFAULT_ITERATIONS;
\* client->pw.iterations = iterations.
SetPw_Iterations ==
    /\ w.pc = "l132"
    /\ w' = [w EXCEPT !.pc = "l141"]
    /\ clients' = [clients EXCEPT !["alice"].pw.iterations = PW_DEFAULT_ITERATIONS]
    /\ UNCHANGED <<r, pc, call, result, codecVars>>

\* lines 141-148: the derivation reads client->pw.salt and fills the
\* caller's buffer.
SetPw_Derive ==
    /\ w.pc = "l141"
    /\ w' = [w EXCEPT !.pc = "store",
                      !.hash = PKCS5_PBKDF2_HMAC(w.password, Shared.pw.salt,
                                                 PW_DEFAULT_ITERATIONS, HashLen)]
    /\ UNCHANGED <<clients, r, pc, call, result, codecVars>>

\* The caller stores the returned hash and marks the material present.
SetPw_Store ==
    /\ w.pc = "store"
    /\ w' = [w EXCEPT !.pc = "done"]
    /\ clients' = [clients EXCEPT !["alice"].pw.password_hash = w.hash,
                                  !["alice"].pw.valid = TRUE]
    /\ UNCHANGED <<r, pc, call, result, codecVars>>

\* dynsec_auth__basic_auth_callback, lines 182-195: the lookup and the
\* checks of disabled, clientid and pw.valid.
Auth_Policy ==
    /\ r.pc = "start"
    /\ \E ed \in EventData :
        /\ ed.username = "alice"
        /\ ed.password # NULL
        /\ IF ClientDisabled(Shared) \/ ClientIdMismatch(Shared, ed)
           THEN r' = [r EXCEPT !.pc = "done", !.ed = ed, !.rc = MOSQ_ERR_AUTH]
           ELSE IF ~Shared.pw.valid
           THEN r' = [r EXCEPT !.pc = "done", !.ed = ed,
                               !.rc = MOSQ_ERR_PLUGIN_DEFER]
           ELSE r' = [r EXCEPT !.pc = "l134", !.ed = ed]
    /\ UNCHANGED <<clients, w, pc, call, result, codecVars>>

\* dynsec_auth__pw_hash, new_password = false, lines 134-138:
\* iterations = client->pw.iterations; if(iterations < 1) return.
Auth_ReadIterations ==
    /\ r.pc = "l134"
    /\ IF Shared.pw.iterations < 1
       THEN r' = [r EXCEPT !.pc = "done", !.iterations = Shared.pw.iterations,
                           !.rc = MOSQ_ERR_PLUGIN_DEFER]
       ELSE r' = [r EXCEPT !.pc = "l139", !.iterations = Shared.pw.iterations]
    /\ UNCHANGED <<clients, w, pc, call, result, codecVars>>

\* line 139: client->pw.iterations = iterations.
Auth_WriteIterations ==
    /\ r.pc = "l139"
    /\ r' = [r EXCEPT !.pc = "l141"]
    /\ clients' = [clients EXCEPT !["alice"].pw.iterations = r.iterations]
    /\ UNCHANGED <<w, pc, call, result, codecVars>>

\* lines 141-148: the derivation reads client->pw.salt and fills the
\* callback's password_hash.
Auth_Derive ==
    /\ r.pc = "l141"
    /\ r' = [r EXCEPT !.pc = "l196", !.salt = Shared.pw.salt,
                      !.password_hash =
                          PKCS5_PBKDF2_HMAC(r.ed.password, Shared.pw.salt,
                                            r.iterations, HashLen)]
    /\ UNCHANGED <<clients, w, pc, call, result, codecVars>>

\* lines 196-244: memcmp_const against client->pw.password_hash.
Auth_Compare ==
    /\ r.pc = "l196"
    /\ r' = [r EXCEPT !.pc = "done", !.stored = Shared.pw.password_hash,
                      !.rc = IF memcmp_const(Shared.pw.password_hash,
                                             r.password_hash, HashLen) = 0
                             THEN MOSQ_ERR_SUCCESS
                             ELSE MOSQ_ERR_AUTH]
    /\ UNCHANGED <<clients, w, pc, call, result, codecVars>>

NextConc ==
    \/ SetPw_RandBytes \/ SetPw_Iterations \/ SetPw_Derive \/ SetPw_Store
    \/ Auth_Policy \/ Auth_ReadIterations \/ Auth_WriteIterations
    \/ Auth_Derive \/ Auth_Compare

SpecConc == InitConc /\ [][NextConc]_vars

\* The version the set-password call installs.
NewVersion ==
    Version(w.rand_salt, PW_DEFAULT_ITERATIONS,
            PKCS5_PBKDF2_HMAC(w.password, w.rand_salt, PW_DEFAULT_ITERATIONS,
                              HashLen))

\* The check ran to the comparison; what it drew from the record.
CheckCompared == r.pc = "done" /\ r.rc \in {MOSQ_ERR_SUCCESS, MOSQ_ERR_AUTH}
                               /\ r.stored # Uninit

CheckSnapshot == Version(r.salt, r.iterations, r.stored)

(***************************************************************************)
(* C8: with a check running concurrently with a set-password operation on  *)
(* the same record, the salt, iterations and stored hash the check uses    *)
(* for its decision all belong to one version of the record: the one       *)
(* before the operation or the one it installs.                            *)
(***************************************************************************)
C8_CheckUsesOneVersion ==
    CheckCompared =>
        \/ CheckSnapshot = w.old
        \/ w.pc # "start" /\ CheckSnapshot = NewVersion

=============================================================================
